---- MODULE Spec2Model ----
(***************************************************************************)
(* A model of the X01 leg scoring state machine of libdarts-rs             *)
(* (x01/leg.rs) together with the value types it is built from: Throw      *)
(* (throw.rs), Turn, and the rule predicates of x01/ruleset.rs.            *)
(*                                                                         *)
(* A Leg value is the record                                               *)
(*   [ruleset, participants, current, data]                                *)
(* with participants the number of entries of the roster, current the      *)
(* struct CurrentPlayer {index, points, turn} and data the per-participant *)
(* turn histories, indexed from 0 as in the code.                          *)
(***************************************************************************)
EXTENDS Integers, Sequences, FiniteSets, TLC

\* ------------------------------------------------------------------ bounds
\* The number of throws played in one explored leg.
MaxThrows == 5
\* The largest starting score offered to the Ruleset builder.
MaxScore == 101
\* The largest roster built.
MaxParticipants == 2
\* The number of throws played in one explored set.
MaxSetThrows == 5
\* The longest text handed to Throw::from_str.
MaxTextLen == 3

\* ----------------------------------------------------------- throw.rs
Multipliers == {"Single", "Double", "Triple"}

\* The absent multiplier of a Miss (Option::None of Throw::multiplier).
NoMultiplier == "None"

\* factor with 4 for Triple.
factor_triple4(mult) ==
    CASE mult = "Single" -> 1
      [] mult = "Double" -> 2
      [] mult = "Triple" -> 4

\* Multiplier::factor
factor(mult) ==
    CASE mult = "Single" -> 1
      [] mult = "Double" -> 2
      [] mult = "Triple" -> 3

\* enum Throw { Bullseye(Multiplier), Number(Multiplier, u8), Miss }
Bullseye(mult) == [kind |-> "Bullseye", mult |-> mult, number |-> 0]
Number(mult, n) == [kind |-> "Number", mult |-> mult, number |-> n]
Miss == [kind |-> "Miss", mult |-> NoMultiplier, number |-> 0]

\* points that takes every bullseye for the outer one.
points_flatbull(throw) ==
    CASE throw.kind = "Miss" -> 0
      [] throw.kind = "Bullseye" -> 25
      [] throw.kind = "Number" -> (factor(throw.mult) * throw.number) % 256

\* Throw::points, a u8.
points(throw) ==
    CASE throw.kind = "Miss" -> 0
      [] throw.kind = "Bullseye" -> (25 * factor(throw.mult)) % 256
      [] throw.kind = "Number" -> (factor(throw.mult) * throw.number) % 256

\* Throw::multiplier
multiplier(throw) ==
    CASE throw.kind = "Bullseye" -> throw.mult
      [] throw.kind = "Number" -> throw.mult
      [] throw.kind = "Miss" -> NoMultiplier

\* The darts thrown in the explored legs: a miss and a single, a double and
\* two triples (60 + 40 leaves 1 of 101, 60 + 39 leaves 2, 60 + 40 + 1 and
\* its permutations check out on a single, a double or a triple).
Throws ==
    { Miss, Number("Single", 1), Number("Double", 20), Number("Triple", 20),
      Number("Triple", 13) }

\* ------------------------------------------------------------- Turn
\* The Turn that leg.rs uses: its throws and a bust flag.
Turn_new == [throws |-> <<>>, bust |-> FALSE]

\* Turn::add_throw that does not look at the bust flag.
Turn_add_throw_anyway(turn, throw) ==
    [ok |-> TRUE, turn |-> [turn EXCEPT !.throws = Append(@, throw)]]

\* Turn::add_throw: Err(Bust) on a bust turn, otherwise the throw is appended.
Turn_add_throw(turn, throw) ==
    IF turn.bust
    THEN [ok |-> FALSE, turn |-> turn]
    ELSE [ok |-> TRUE, turn |-> [turn EXCEPT !.throws = Append(@, throw)]]

\* Turn::bust
Turn_bust(turn) == [turn EXCEPT !.bust = TRUE]

Turn_is_bust(turn) == turn.bust

Turn_num_throws(turn) == Len(turn.throws)

RECURSIVE SumThrows(_)
SumThrows(throws) ==
    IF throws = <<>> THEN 0
    ELSE (points(Head(throws)) + SumThrows(Tail(throws))) % 256

\* Turn::points, a u8: 0 for a bust turn, else the sum of its throws.
Turn_points(turn) == IF turn.bust THEN 0 ELSE SumThrows(turn.throws)

\* ------------------------------------------------------------- turn.rs
\* The Turn of turn.rs: its throws and maximum_throws, no bust flag.
TurnRs_new == [throws |-> <<>>, maximum_throws |-> 3]

\* Turn::add_throw of turn.rs with > in place of >=: a fourth throw fits.
TurnRs_add_throw_offbyone(self, throw) ==
    IF Len(self.throws) > self.maximum_throws
    THEN [ok |-> FALSE, err |-> "MaximumThrowsReached", turn |-> self]
    ELSE [ok |-> TRUE, err |-> "None",
          turn |-> [self EXCEPT !.throws = Append(@, throw)]]

\* Turn::add_throw of turn.rs
TurnRs_add_throw(self, throw) ==
    IF Len(self.throws) >= self.maximum_throws
    THEN [ok |-> FALSE, err |-> "MaximumThrowsReached", turn |-> self]
    ELSE [ok |-> TRUE, err |-> "None",
          turn |-> [self EXCEPT !.throws = Append(@, throw)]]

\* Turn::score of turn.rs that leaves out the last throw.
TurnRs_score_droplast(self) ==
    IF self.throws = <<>> THEN 0
    ELSE SumThrows(SubSeq(self.throws, 1, Len(self.throws) - 1))

\* Turn::score of turn.rs, a u8: the sum of the points of its throws.
TurnRs_score(self) == SumThrows(self.throws)

\* ------------------------------------------------------- x01/ruleset.rs
Rules == {"Any", "Double", "Triple"}

\* valid_throw with the Triple arm copied from the Double arm.
InRule_valid_throw_copied(in_rule, throw) ==
    CASE in_rule = "Any" -> TRUE
      [] in_rule = "Double" -> multiplier(throw) = "Double"
      [] in_rule = "Triple" -> multiplier(throw) = "Double"

\* valid_throw whose Any arm asks for a dart that hit: any multiplier.
InRule_valid_throw_hitsonly(in_rule, throw) ==
    CASE in_rule = "Any" -> multiplier(throw) # NoMultiplier
      [] in_rule = "Double" -> multiplier(throw) = "Double"
      [] in_rule = "Triple" -> multiplier(throw) = "Triple"

\* InRule::valid_throw
InRule_valid_throw(in_rule, throw) ==
    CASE in_rule = "Any" -> TRUE
      [] in_rule = "Double" -> multiplier(throw) = "Double"
      [] in_rule = "Triple" -> multiplier(throw) = "Triple"

\* valid_finisher with the Double and Triple arms exchanged.
valid_finisher_swapped(out_rule, throw) ==
    CASE out_rule = "Any" -> TRUE
      [] out_rule = "Double" -> multiplier(throw) = "Triple"
      [] out_rule = "Triple" -> multiplier(throw) = "Double"

\* valid_finisher that accepts every throw under Double-out.
valid_finisher_lenient(out_rule, throw) ==
    CASE out_rule = "Any" -> TRUE
      [] out_rule = "Double" -> TRUE
      [] out_rule = "Triple" -> multiplier(throw) = "Triple"

\* OutRule::valid_finisher
valid_finisher(out_rule, throw) ==
    CASE out_rule = "Any" -> TRUE
      [] out_rule = "Double" -> multiplier(throw) = "Double"
      [] out_rule = "Triple" -> multiplier(throw) = "Triple"

\* valid_remaining_points with the floor of Any-out in every arm.
valid_remaining_points_nofloor(out_rule, remaining_points) ==
    CASE out_rule = "Any" -> remaining_points >= 1
      [] out_rule = "Double" -> remaining_points >= 1
      [] out_rule = "Triple" -> remaining_points >= 1

\* valid_remaining_points with each floor of Double and Triple one too low.
valid_remaining_points_offbyone(out_rule, remaining_points) ==
    CASE out_rule = "Any" -> remaining_points >= 1
      [] out_rule = "Double" -> remaining_points >= 1
      [] out_rule = "Triple" -> remaining_points >= 2

\* OutRule::valid_remaining_points
valid_remaining_points(out_rule, remaining_points) ==
    CASE out_rule = "Any" -> remaining_points >= 1
      [] out_rule = "Double" -> remaining_points >= 2
      [] out_rule = "Triple" -> remaining_points >= 3

\* is_valid_score without its first operand, score > 1.
is_valid_score_noguard(score) == (score - 1) % 100 = 0

\* is_valid_score, the validator of Ruleset.score
is_valid_score(score) == score > 1 /\ (score - 1) % 100 = 0

\* The rulesets the builder yields: a validated score and any pair of rules.
Rulesets ==
    [score : {s \in 0..MaxScore : is_valid_score(s)},
     in_rule : Rules, out_rule : Rules]

\* --------------------------------------------------------------- x01/leg.rs
\* Option::None of checked_sub.
None == -1

\* A saturating subtraction in place of the checked one.
checked_sub_saturating(a, b) == IF a >= b THEN a - b ELSE 0

checked_sub(a, b) == IF a >= b THEN a - b ELSE None

RECURSIVE SumNonBust(_)
SumNonBust(turns) ==
    IF turns = <<>> THEN 0
    ELSE (IF Turn_is_bust(Head(turns)) THEN 0 ELSE Turn_points(Head(turns)))
         + SumNonBust(Tail(turns))

RECURSIVE SumAllTurns(_)
SumAllTurns(turns) ==
    IF turns = <<>> THEN 0
    ELSE SumThrows(Head(turns).throws) + SumAllTurns(Tail(turns))

\* calculate_score without the filter: the throws of bust turns count too.
calculate_score_nofilter(leg, player_index, start_score) ==
    checked_sub(start_score, SumAllTurns(leg.data[player_index].turns))

\* Leg::calculate_score
calculate_score(leg, player_index, start_score) ==
    checked_sub(start_score, SumNonBust(leg.data[player_index].turns))

\* ThrowResult::unfinished, ThrowResult::finished; "Panic" stands for an
\* aborted call (an unwrap of None or Err, or panic!).
unfinished(game) == [state |-> "Unfinished", game |-> game]
finished(game) == [state |-> "Finished", game |-> game]
panicked(game) == [state |-> "Panic", game |-> game]

\* begin_turn that computes the score of the player whose turn just ended.
begin_turn_prevplayer(leg, next_player) ==
    [leg EXCEPT !.current =
        [index |-> next_player,
         points |-> calculate_score(leg, leg.current.index, leg.ruleset.score),
         turn |-> Turn_new]]

\* Leg::begin_turn; a current.points of None stands for
\* panic!("Invalid state reached").
begin_turn(leg, next_player) ==
    [leg EXCEPT !.current =
        [index |-> next_player,
         points |-> calculate_score(leg, next_player, leg.ruleset.score),
         turn |-> Turn_new]]

\* next_turn that stores the turn after it was taken: an empty turn.
next_turn_pushempty(leg) ==
    LET pushed == [leg EXCEPT !.current.turn = Turn_new,
                              !.data[leg.current.index].turns = Append(@, Turn_new)]
        next_player == (leg.current.index + 1) % leg.participants
        begun == begin_turn(pushed, next_player)
    IN  IF begun.current.points = None THEN panicked(begun) ELSE unfinished(begun)

\* next_turn that does not rotate the player index.
next_turn_norotate(leg) ==
    LET turn == leg.current.turn
        pushed == [leg EXCEPT !.current.turn = Turn_new,
                              !.data[leg.current.index].turns = Append(@, turn)]
        next_player == leg.current.index
        begun == begin_turn(pushed, next_player)
    IN  IF begun.current.points = None THEN panicked(begun) ELSE unfinished(begun)

\* next_turn that stores the turn in the history of the next player.
next_turn_pushnext(leg) ==
    LET turn == leg.current.turn
        next_player == (leg.current.index + 1) % leg.participants
        pushed == [leg EXCEPT !.current.turn = Turn_new,
                              !.data[next_player].turns = Append(@, turn)]
        begun == begin_turn(pushed, next_player)
    IN  IF begun.current.points = None THEN panicked(begun) ELSE unfinished(begun)

\* Leg::next_turn
next_turn(leg) ==
    LET turn == leg.current.turn
        pushed == [leg EXCEPT !.current.turn = Turn_new,
                              !.data[leg.current.index].turns = Append(@, turn)]
        next_player == (leg.current.index + 1) % leg.participants
        begun == begin_turn(pushed, next_player)
    IN  IF begun.current.points = None THEN panicked(begun) ELSE unfinished(begun)

\* bust_turn that ends the turn without marking it bust.
bust_turn_unflagged(leg) == next_turn(leg)

\* Leg::bust_turn
bust_turn(leg) ==
    next_turn([leg EXCEPT !.current.turn = Turn_bust(@)])

\* Leg::new that deals the first turn to the last participant.
Leg_new_lastfirst(rs, n) ==
    begin_turn([ruleset |-> rs,
                participants |-> n,
                current |-> [index |-> 0, points |-> 0, turn |-> Turn_new],
                data |-> [i \in 0..(n - 1) |-> [turns |-> <<>>]]], n - 1)

\* Leg::new
Leg_new(rs, n) ==
    begin_turn([ruleset |-> rs,
                participants |-> n,
                current |-> [index |-> 0, points |-> 0, turn |-> Turn_new],
                data |-> [i \in 0..(n - 1) |-> [turns |-> <<>>]]], 0)

\* Leg::current_points; None stands for the unwrap of an underflow.
current_points(leg) ==
    checked_sub(leg.current.points, Turn_points(leg.current.turn))

\* first_throw that looks at the turn in progress only.
first_throw_everyturn(leg) == Turn_num_throws(leg.current.turn) = 0

\* first_throw without its second operand: every throw of a first turn.
first_throw_historyonly(leg) == leg.data[leg.current.index].turns = <<>>

\* The first_throw flag of Leg::add_throw.
first_throw(leg) ==
    /\ leg.data[leg.current.index].turns = <<>>
    /\ Turn_num_throws(leg.current.turn) = 0

\* add_throw that ends the turn on its second throw.
add_throw_twothrows(leg, throw) ==
    LET added == Turn_add_throw(leg.current.turn, throw)
        self == [leg EXCEPT !.current.turn = added.turn]
        turn_points == Turn_points(self.current.turn)
        pts == checked_sub(self.current.points, turn_points)
    IN  IF ~added.ok THEN panicked(leg)
        ELSE IF first_throw(leg) /\ ~InRule_valid_throw(self.ruleset.in_rule, throw)
        THEN bust_turn(self)
        ELSE IF pts = None THEN bust_turn(self)
        ELSE IF pts = 0
        THEN IF valid_finisher(self.ruleset.out_rule, throw)
             THEN finished(self)
             ELSE bust_turn(self)
        ELSE IF valid_remaining_points(self.ruleset.out_rule, pts)
        THEN IF Turn_num_throws(self.current.turn) = 2
             THEN next_turn(self)
             ELSE unfinished(self)
        ELSE bust_turn(self)

\* add_throw that ends the turn on its fourth throw.
add_throw_fourthrows(leg, throw) ==
    LET added == Turn_add_throw(leg.current.turn, throw)
        self == [leg EXCEPT !.current.turn = added.turn]
        turn_points == Turn_points(self.current.turn)
        pts == checked_sub(self.current.points, turn_points)
    IN  IF ~added.ok THEN panicked(leg)
        ELSE IF first_throw(leg) /\ ~InRule_valid_throw(self.ruleset.in_rule, throw)
        THEN bust_turn(self)
        ELSE IF pts = None THEN bust_turn(self)
        ELSE IF pts = 0
        THEN IF valid_finisher(self.ruleset.out_rule, throw)
             THEN finished(self)
             ELSE bust_turn(self)
        ELSE IF valid_remaining_points(self.ruleset.out_rule, pts)
        THEN IF Turn_num_throws(self.current.turn) = 4
             THEN next_turn(self)
             ELSE unfinished(self)
        ELSE bust_turn(self)

\* Leg::add_throw
add_throw(leg, throw) ==
    LET added == Turn_add_throw(leg.current.turn, throw)
        self == [leg EXCEPT !.current.turn = added.turn]
        turn_points == Turn_points(self.current.turn)
        pts == checked_sub(self.current.points, turn_points)
    IN  IF ~added.ok THEN panicked(leg)
        ELSE IF first_throw(leg) /\ ~InRule_valid_throw(self.ruleset.in_rule, throw)
        THEN bust_turn(self)
        ELSE IF pts = None THEN bust_turn(self)
        ELSE IF pts = 0
        THEN IF valid_finisher(self.ruleset.out_rule, throw)
             THEN finished(self)
             ELSE bust_turn(self)
        ELSE IF valid_remaining_points(self.ruleset.out_rule, pts)
        THEN IF Turn_num_throws(self.current.turn) = 3
             THEN next_turn(self)
             ELSE unfinished(self)
        ELSE bust_turn(self)

\* ------------------------------------------------------------ the state
VARIABLES
    ruleset,        \* Leg.ruleset
    participants,   \* Leg.participants, the size of the roster
    current,        \* Leg.current
    data,           \* Leg.data
    state,          \* the State of the last ThrowResult
    prev,           \* history: the Leg the last add_throw was called on
    throw_in,       \* history: the throw of the last add_throw
    nthrows,        \* history: the number of add_throw calls so far
    thrown,         \* history: the number of throws each participant made
    turn_start,     \* history: points at the start of each participant's
                    \*          last ended turn
    legs,           \* Set.legs; Set.current_leg is the Leg above
    first_player,   \* Set.first_player
    created,        \* the Result of Set::new
    asked_first,    \* history: the first_player argument of Set::new
    call,           \* the last call of a Throw constructor and its arguments
    ret,            \* the ThrowResult that call returned
    pts,            \* points() of the Throw in ret, once it was asked for
    builder,        \* the builder in use: a Ruleset, SetOptions or
                    \* Participants builder and the fields set so far
    bcall,          \* the last call made on the builder and its argument
    bret,           \* what that call returned
    turn,           \* a Turn as leg.rs uses it (throws and bust flag)
    round,          \* a Turn of turn.rs (throws and maximum_throws)
    tcall,          \* the last call made on turn or round and its argument
    tret,           \* the Result that call returned
    tprev           \* history: turn and round before that call

legvars == <<ruleset, participants, current, data, state, prev, throw_in,
             nthrows, thrown, turn_start>>
setvars == <<legs, first_player, created, asked_first>>
throwvars == <<call, ret, pts>>
buildvars == <<builder, bcall, bret>>
turnvars == <<turn, round, tcall, tret, tprev>>
vars == <<legvars, setvars, throwvars, buildvars, turnvars>>

\* No Throw constructor was called.
NoCall ==
    /\ call = [op |-> "none", mult |-> NoMultiplier, number |-> 0, text |-> <<>>]
    /\ ret = [ok |-> FALSE, throw |-> Miss, err |-> "None", value |-> 0,
              text |-> <<>>]
    /\ pts = None

\* No builder was used.
NoBuild ==
    /\ builder = [kind |-> "none", score |-> None, num_sets |-> 1, num_legs |-> 1,
                  win_distance |-> 1, filled |-> {}, roster |-> 0]
    /\ bcall = [op |-> "none", value |-> 0]
    /\ bret = [ok |-> TRUE, kind |-> "none", value |-> 0, overflow |-> FALSE]

\* No Turn was touched outside a Leg.
NoTurn ==
    /\ turn = Turn_new
    /\ round = TurnRs_new
    /\ tcall = [op |-> "none", throw |-> Miss]
    /\ tret = [ok |-> TRUE, err |-> "None", points |-> 0]
    /\ tprev = [turn |-> Turn_new, round |-> TurnRs_new]

\* No Set is involved.
NoSet ==
    /\ legs = <<>>
    /\ first_player = 0
    /\ created = [kind |-> "NoSet", value |-> 0]
    /\ asked_first = 0

\* The Leg value held in the variables.
TheLeg ==
    [ruleset |-> ruleset, participants |-> participants,
     current |-> current, data |-> data]

Init ==
    \E rs \in Rulesets, n \in 1..MaxParticipants :
        LET leg == Leg_new(rs, n)
        IN  /\ ruleset = leg.ruleset
            /\ participants = leg.participants
            /\ current = leg.current
            /\ data = leg.data
            /\ state = "Unfinished"
            /\ prev = leg
            /\ throw_in = Miss
            /\ nthrows = 0
            /\ thrown = [i \in 0..(n - 1) |-> 0]
            /\ turn_start = [i \in 0..(n - 1) |-> rs.score]
            /\ NoSet
            /\ NoCall
            /\ NoBuild
            /\ NoTurn

\* The effect of leg = leg.add_throw(throw) on the variables.
ApplyThrow(throw) ==
    /\ nthrows < MaxThrows
    /\ LET res == add_throw(TheLeg, throw)
           who == current.index
       IN  /\ ruleset' = res.game.ruleset
           /\ participants' = res.game.participants
           /\ current' = res.game.current
           /\ data' = res.game.data
           /\ state' = res.state
           /\ prev' = TheLeg
           /\ throw_in' = throw
           /\ nthrows' = nthrows + 1
           /\ thrown' = [thrown EXCEPT ![who] = @ + 1]
           /\ turn_start' =
                IF Len(res.game.data[who].turns) > Len(data[who].turns)
                THEN [turn_start EXCEPT ![who] = current.points]
                ELSE turn_start
    /\ UNCHANGED <<setvars, throwvars, buildvars, turnvars>>

\* One call leg = leg.add_throw(throw). The code has no guard of its own;
\* the callers throw only at the Leg of an Unfinished result (Set::add_throw
\* replaces a Finished Leg by a fresh one), and so does this specification.
AddThrow(throw) ==
    /\ state = "Unfinished"
    /\ ApplyThrow(throw)

Next == \E throw \in Throws : AddThrow(throw)

Spec == Init /\ [][Next]_vars

\* Legs of a single participant from a starting score above MaxScore, which
\* leaves room for a turn of three Triple-20.
MaxHighScore == 201

HighRulesets ==
    [score : {s \in (MaxScore + 1)..MaxHighScore : is_valid_score(s)},
     in_rule : Rules, out_rule : Rules]

InitHigh ==
    \E rs \in HighRulesets :
        LET leg == Leg_new(rs, 1)
        IN  /\ ruleset = leg.ruleset
            /\ participants = leg.participants
            /\ current = leg.current
            /\ data = leg.data
            /\ state = "Unfinished"
            /\ prev = leg
            /\ throw_in = Miss
            /\ nthrows = 0
            /\ thrown = [i \in 0..0 |-> 0]
            /\ turn_start = [i \in 0..0 |-> rs.score]
            /\ NoSet
            /\ NoCall
            /\ NoBuild
            /\ NoTurn

SpecHigh == InitHigh /\ [][Next]_vars

\* The same call made whatever the last result was: add_throw takes any Leg,
\* the Leg of a Finished result included.
AddThrowAnyState(throw) ==
    /\ state # "Panic"
    /\ ApplyThrow(throw)

NextAnyState == \E throw \in Throws : AddThrowAnyState(throw)

SpecAnyState == Init /\ [][NextAnyState]_vars

\* --------------------------------------------------------------- x01/set.rs
\* is_positive that lets 0 pass.
is_positive_nonneg(value) == value >= 0

\* is_positive, the validator of the three SetOptions fields
is_positive(value) == value > 0

\* The SetOptions the builder yields from the values 0, 1 and 2.
SetOptions ==
    {o \in [num_sets : 0..2, num_legs : 0..2, win_distance : 0..2] :
        is_positive(o.num_sets) /\ is_positive(o.num_legs)
            /\ is_positive(o.win_distance)}

\* The rulesets of the explored sets: Ruleset with its sets field.
SetRulesets ==
    [score : {s \in 0..MaxScore : is_valid_score(s)},
     in_rule : Rules, out_rule : Rules, sets : SetOptions]

\* The darts thrown in the explored sets: 51 + 50 checks out in two throws.
SetThrows == { Miss, Number("Triple", 17), Bullseye("Double") }

\* Leg::new(ruleset, participants, first_player), as Set calls it: the Leg
\* begins with the turn of first_player.
Leg_new_at(rs, n, first) ==
    begin_turn([ruleset |-> rs,
                participants |-> n,
                current |-> [index |-> 0, points |-> 0, turn |-> Turn_new],
                data |-> [i \in 0..(n - 1) |-> [turns |-> <<>>]]], first)

\* The Leg of a Set that was not created.
NoLeg(rs, n) ==
    [ruleset |-> rs, participants |-> n,
     current |-> [index |-> 0, points |-> 0, turn |-> Turn_new],
     data |-> [i \in 0..(n - 1) |-> [turns |-> <<>>]]]

\* Set::new that rejects the last valid index as well.
Set_new_offbyone(rs, n, first) ==
    IF first + 1 >= n
    THEN [kind |-> "InvalidFirstPlayer", value |-> first,
          legs |-> <<>>, current_leg |-> NoLeg(rs, n), first_player |-> 0]
    ELSE [kind |-> "Ok", value |-> 0,
          legs |-> <<>>, current_leg |-> Leg_new_at(rs, n, first),
          first_player |-> first]

\* Set::new: Err(InvalidFirstPlayer(first_player)) or Ok(Set).
Set_new(rs, n, first) ==
    IF first >= n
    THEN [kind |-> "InvalidFirstPlayer", value |-> first,
          legs |-> <<>>, current_leg |-> NoLeg(rs, n), first_player |-> 0]
    ELSE [kind |-> "Ok", value |-> 0,
          legs |-> <<>>, current_leg |-> Leg_new_at(rs, n, first),
          first_player |-> first]

\* Set::current_leg_number
current_leg_number(set) == Len(set.legs) + 1

\* Set::add_throw that keeps the starting player.
Set_add_throw_norotate(set, throw) ==
    LET res == add_throw(set.current_leg, throw)
    IN  IF res.state = "Finished"
        THEN [state |-> res.state,
              set |-> [legs |-> Append(set.legs, res.game),
                       first_player |-> set.first_player,
                       current_leg |->
                          Leg_new_at(set.current_leg.ruleset,
                                     set.current_leg.participants,
                                     set.first_player)]]
        ELSE [state |-> res.state,
              set |-> [set EXCEPT !.current_leg = res.game]]

\* Set::add_throw that ends the set after num_legs legs: the finished Leg
\* stays the current one.
Set_add_throw_ends(set, throw) ==
    LET res == add_throw(set.current_leg, throw)
        first == (set.first_player + 1) % set.current_leg.participants
    IN  IF res.state = "Finished"
        THEN [state |-> res.state,
              set |-> [legs |-> Append(set.legs, res.game),
                       first_player |-> first,
                       current_leg |->
                          IF Len(set.legs) + 1 >= set.current_leg.ruleset.sets.num_legs
                          THEN res.game
                          ELSE Leg_new_at(set.current_leg.ruleset,
                                          set.current_leg.participants, first)]]
        ELSE [state |-> res.state,
              set |-> [set EXCEPT !.current_leg = res.game]]

\* Set::add_throw that rotates the starting player on every throw.
Set_add_throw_rotatealways(set, throw) ==
    LET res == add_throw(set.current_leg, throw)
        first == (set.first_player + 1) % set.current_leg.participants
    IN  IF res.state = "Finished"
        THEN [state |-> res.state,
              set |-> [legs |-> Append(set.legs, res.game),
                       first_player |-> first,
                       current_leg |->
                          Leg_new_at(set.current_leg.ruleset,
                                     set.current_leg.participants, first)]]
        ELSE [state |-> res.state,
              set |-> [set EXCEPT !.current_leg = res.game,
                                  !.first_player = first]]

\* Set::add_throw; state is the State its current Leg reported.
Set_add_throw(set, throw) ==
    LET res == add_throw(set.current_leg, throw)
        first == (set.first_player + 1) % set.current_leg.participants
    IN  IF res.state = "Finished"
        THEN [state |-> res.state,
              set |-> [legs |-> Append(set.legs, res.game),
                       first_player |-> first,
                       current_leg |->
                          Leg_new_at(set.current_leg.ruleset,
                                     set.current_leg.participants, first)]]
        ELSE [state |-> res.state,
              set |-> [set EXCEPT !.current_leg = res.game]]

\* The Set value held in the variables.
TheSet ==
    [legs |-> legs, current_leg |-> TheLeg, first_player |-> first_player]

\* Set::new on any ruleset, any roster and any first_player argument.
SetInit ==
    \E rs \in SetRulesets, n \in 1..MaxParticipants, first \in 0..MaxParticipants :
        LET made == Set_new(rs, n, first)
        IN  /\ ruleset = made.current_leg.ruleset
            /\ participants = made.current_leg.participants
            /\ current = made.current_leg.current
            /\ data = made.current_leg.data
            /\ state = "Unfinished"
            /\ prev = made.current_leg
            /\ throw_in = Miss
            /\ nthrows = 0
            /\ thrown = [i \in 0..(n - 1) |-> 0]
            /\ turn_start = [i \in 0..(n - 1) |-> rs.score]
            /\ legs = made.legs
            /\ first_player = made.first_player
            /\ created = [kind |-> made.kind, value |-> made.value]
            /\ asked_first = first
            /\ NoCall
            /\ NoBuild
            /\ NoTurn

\* One call set = set.add_throw(throw) on a created Set.
SetAddThrow(throw) ==
    /\ created.kind = "Ok"
    /\ state # "Panic"
    /\ nthrows < MaxSetThrows
    /\ LET res == Set_add_throw(TheSet, throw)
       IN  /\ ruleset' = res.set.current_leg.ruleset
           /\ participants' = res.set.current_leg.participants
           /\ current' = res.set.current_leg.current
           /\ data' = res.set.current_leg.data
           /\ legs' = res.set.legs
           /\ first_player' = res.set.first_player
           /\ state' = res.state
           /\ prev' = TheLeg
           /\ throw_in' = throw
           /\ nthrows' = nthrows + 1
    /\ UNCHANGED <<thrown, turn_start, created, asked_first, throwvars,
                 buildvars, turnvars>>

SetNext == \E throw \in SetThrows : SetAddThrow(throw)

SpecSet == SetInit /\ [][SetNext]_vars

\* ------------------------------------------------- throw.rs, constructors
\* type ThrowResult = Result<Throw, InvalidThrowError>
Ok(th) ==
    [ok |-> TRUE, throw |-> th, err |-> "None", value |-> 0, text |-> <<>>]
Err(e, v, t) ==
    [ok |-> FALSE, throw |-> Miss, err |-> e, value |-> v, text |-> t]

\* Throw::bullseye that accepts every multiplier.
Throw_bullseye_any(mult) == Ok(Bullseye(mult))

\* Throw::bullseye
Throw_bullseye(mult) ==
    IF mult = "Triple" THEN Err("BullseyeTriple", 0, <<>>) ELSE Ok(Bullseye(mult))

\* Throw::number with an inclusive upper end of the range, 1..=21.
Throw_number_inclusive(mult, number) ==
    IF number >= 1 /\ number <= 21
    THEN Ok(Number(mult, number))
    ELSE Err("InvalidNumber", number, <<>>)

\* Throw::number; the range 1u8..21u8 excludes 21.
Throw_number(mult, number) ==
    IF number >= 1 /\ number < 21
    THEN Ok(Number(mult, number))
    ELSE Err("InvalidNumber", number, <<>>)

\* Throw::single, Throw::double, Throw::triple, Throw::miss
Throw_single(number) == Throw_number("Single", number)
Throw_double(number) == Throw_number("Double", number)
Throw_triple(number) == Throw_number("Triple", number)
Throw_miss == Ok(Miss)

\* Throw::parse_multiplier
parse_multiplier(ch) ==
    CASE ch \in {"d", "D"} -> "Double"
      [] ch \in {"t", "T"} -> "Triple"
      [] OTHER -> NoMultiplier

Digits == {"0", "1", "2", "3", "4", "5", "6", "7", "8", "9"}

DigitValue ==
    ("0" :> 0) @@ ("1" :> 1) @@ ("2" :> 2) @@ ("3" :> 3) @@ ("4" :> 4) @@
    ("5" :> 5) @@ ("6" :> 6) @@ ("7" :> 7) @@ ("8" :> 8) @@ ("9" :> 9)

RECURSIVE DecimalValue(_)
DecimalValue(ds) ==
    IF ds = <<>> THEN 0
    ELSE 10 * DecimalValue(SubSeq(ds, 1, Len(ds) - 1)) + DigitValue[ds[Len(ds)]]

\* str::parse::<u8>().ok(): an optional + and at least one decimal digit,
\* of a value that fits a u8; None otherwise.
parse_u8(chars) ==
    LET ds == IF chars # <<>> /\ chars[1] = "+" THEN Tail(chars) ELSE chars
    IN  IF ds = <<>> \/ \E i \in 1..Len(ds) : ds[i] \notin Digits THEN None
        ELSE IF DecimalValue(ds) > 255 THEN None
        ELSE DecimalValue(ds)

\* Throw::from_str; a text is the sequence of its characters.
Throw_from_str(text) ==
    IF text = <<>> THEN Err("Unparseable", 0, text)
    ELSE LET opt_mult == parse_multiplier(text[1])
             mult == IF opt_mult # NoMultiplier THEN opt_mult ELSE "Single"
             rest == IF opt_mult # NoMultiplier THEN Tail(text) ELSE text
             number == parse_u8(rest)
         IN  IF number # None /\ number >= 1 /\ number < 21
             THEN Ok(Number(mult, number))
             ELSE IF number = 25 THEN Throw_bullseye(mult)
             ELSE IF number = 0 THEN Ok(Miss)
             ELSE Err("Unparseable", 0, text)

\* The values of a u8 argument.
U8 == 0..255

\* The characters of the explored texts, and the texts.
TextChars == {"D", "t", "0", "1", "2", "5", "+", "x"}
Texts == UNION {[1..k -> TextChars] : k \in 0..MaxTextLen}

\* No Leg and no Set is involved.
ThrowInit ==
    LET leg == NoLeg([score |-> 0, in_rule |-> "Any", out_rule |-> "Any"], 1)
    IN  /\ ruleset = leg.ruleset
        /\ participants = leg.participants
        /\ current = leg.current
        /\ data = leg.data
        /\ state = "Unfinished"
        /\ prev = leg
        /\ throw_in = Miss
        /\ nthrows = 0
        /\ thrown = [i \in 0..0 |-> 0]
        /\ turn_start = [i \in 0..0 |-> 0]
        /\ NoSet
        /\ NoCall
        /\ NoBuild
        /\ NoTurn

\* A constructor is called with the arguments m, n, t and returns result;
\* each behaviour follows the one Throw value of its first call.
Called(o, m, n, t, result) ==
    /\ call.op = "none"
    /\ call' = [op |-> o, mult |-> m, number |-> n, text |-> t]
    /\ ret' = result
    /\ pts' = None
    /\ UNCHANGED <<legvars, setvars, buildvars, turnvars>>

CallBullseye ==
    \E mult \in Multipliers :
        Called("bullseye", mult, 0, <<>>, Throw_bullseye(mult))

CallNumber ==
    \E mult \in Multipliers, number \in U8 :
        Called("number", mult, number, <<>>, Throw_number(mult, number))

CallSingle ==
    \E number \in U8 :
        Called("single", NoMultiplier, number, <<>>, Throw_single(number))

CallDouble ==
    \E number \in U8 :
        Called("double", NoMultiplier, number, <<>>, Throw_double(number))

CallTriple ==
    \E number \in U8 :
        Called("triple", NoMultiplier, number, <<>>, Throw_triple(number))

CallMiss == Called("miss", NoMultiplier, 0, <<>>, Throw_miss)

CallFromStr ==
    \E text \in Texts :
        Called("from_str", NoMultiplier, 0, text, Throw_from_str(text))

\* throw.points() on the Throw that the last constructor returned.
CallPoints ==
    /\ ret.ok
    /\ pts = None
    /\ pts' = points(ret.throw)
    /\ UNCHANGED <<call, ret, legvars, setvars, buildvars, turnvars>>

ThrowNext ==
    \/ CallBullseye
    \/ CallNumber
    \/ CallSingle
    \/ CallDouble
    \/ CallTriple
    \/ CallMiss
    \/ CallFromStr
    \/ CallPoints

SpecThrow == ThrowInit /\ [][ThrowNext]_vars

\* ------------------------------------- the builders of x01/ruleset.rs,
\* ----------------------------- x01/participants.rs and x01/participant.rs
\* The largest score and the largest SetOptions value handed to a builder.
MaxAskedScore == 301
MaxAskedOption == 2

\* The largest u8.
U8Max == 2^8 - 1

\* The scores and the SetOptions values handed to the builders.
AskedScores == 0..MaxAskedScore
AskedOptions == (0..MaxAskedOption) \cup {U8Max}

\* The u32 subtraction score - 1 of is_valid_score: && evaluates it only
\* when score > 1 holds, and it underflows when it is evaluated on 0.
score_sub_underflows(score) == score > 1 /\ score - 1 < 0

\* A result of a builder call: Ok or Err(()), what was returned and, for a
\* roster, its size; overflow tells that a u32 subtraction underflowed.
BuildOk(k, v) == [ok |-> TRUE, kind |-> k, value |-> v, overflow |-> FALSE]
BuildErr(k, o) == [ok |-> FALSE, kind |-> k, value |-> 0, overflow |-> o]

\* Ruleset::new().score(score): the score field is validated by
\* is_valid_score.
Ruleset_score(b, score) ==
    IF is_valid_score(score)
    THEN [ret |-> BuildOk("RulesetBuilder", score),
          builder |-> [b EXCEPT !.kind = "Ruleset", !.score = score]]
    ELSE [ret |-> BuildErr("RulesetBuilder", score_sub_underflows(score)),
          builder |-> [b EXCEPT !.kind = "Ruleset"]]

\* A setter of the SetOptions builder: num_sets, num_legs and win_distance
\* are each validated by is_positive.
SetOptions_set(b, field, v) ==
    IF is_positive(v)
    THEN [ret |-> BuildOk("SetOptionsBuilder", v),
          builder |-> [b EXCEPT !.kind = "SetOptions", ![field] = v,
                                !.filled = @ \cup {field}]]
    ELSE [ret |-> BuildErr("SetOptionsBuilder", FALSE),
          builder |-> [b EXCEPT !.kind = "SetOptions"]]

\* build() of the SetOptions builder: unset fields take their default 1, and
\* nothing is validated across the fields.
SetOptions_build(b) ==
    [num_sets |-> b.num_sets, num_legs |-> b.num_legs,
     win_distance |-> b.win_distance]

\* ParticipantsBuilder::add, the same in participants.rs and participant.rs
ParticipantsBuilder_add(b) ==
    [b EXCEPT !.kind = "Participants", !.roster = @ + 1]

\* ParticipantsBuilder::build of participants.rs: None for an empty roster.
participants_rs_build(b) ==
    IF b.roster = 0
    THEN BuildErr("Participants", FALSE)
    ELSE BuildOk("Participants", b.roster)

\* ParticipantsBuilder::build of participant.rs, whose Participants leg.rs
\* imports: every roster is built.
participant_rs_build(b) == BuildOk("Participants", b.roster)

\* Leg::new over a built roster of n participants: with none, data is empty
\* and begin_turn(0) indexes data[0] in calculate_score, which panics.
Leg_new_over(rs, n) ==
    IF n = 0
    THEN [ok |-> FALSE, kind |-> "Panic", value |-> n, overflow |-> FALSE]
    ELSE [ok |-> TRUE, kind |-> "Leg", value |-> Leg_new(rs, n).participants,
          overflow |-> FALSE]

\* No Leg, no Set and no Throw is involved.
BuildInit == ThrowInit

\* The builder call op with argument v returned res.
Built(op, v, res) ==
    /\ bcall' = [op |-> op, value |-> v]
    /\ bret' = res.ret
    /\ builder' = res.builder
    /\ UNCHANGED <<legvars, setvars, throwvars, turnvars>>

\* Ruleset::new().score(score)
BuildScore ==
    \E score \in AskedScores :
        /\ builder.kind = "none"
        /\ Built("score", score, Ruleset_score(builder, score))

\* A setter of a SetOptions builder all of whose setters succeeded so far;
\* the builder offers each setter once.
BuildOption(field) ==
    \E v \in AskedOptions :
        /\ builder.kind \in {"none", "SetOptions"}
        /\ bret.ok
        /\ bcall.op # "build"
        /\ field \notin builder.filled
        /\ Built(field, v, SetOptions_set(builder, field, v))

BuildNumSets == BuildOption("num_sets")
BuildNumLegs == BuildOption("num_legs")
BuildWinDistance == BuildOption("win_distance")

\* build() of a SetOptions builder, of SetOptions::new() as well.
BuildSetOptions ==
    /\ builder.kind \in {"none", "SetOptions"}
    /\ bret.ok
    /\ bcall.op # "build"
    /\ Built("build", 0,
             [ret |-> BuildOk("SetOptions", 0),
              builder |-> [builder EXCEPT !.kind = "SetOptions"]])

\* The roster is still being filled.
Filling ==
    /\ builder.kind \in {"none", "Participants"}
    /\ bcall.op \in {"none", "add"}

\* ParticipantsBuilder::add
BuildAdd ==
    /\ Filling
    /\ builder.roster < MaxParticipants
    /\ Built("add", 0,
             [ret |-> BuildOk("ParticipantsBuilder", builder.roster + 1),
              builder |-> ParticipantsBuilder_add(builder)])

\* Participants::new()...build() of participants.rs
BuildParticipants ==
    /\ Filling
    /\ Built("participants_rs_build", 0,
             [ret |-> participants_rs_build(builder),
              builder |-> [builder EXCEPT !.kind = "Participants"]])

\* Participants::new()...build() of participant.rs
BuildParticipant ==
    /\ Filling
    /\ Built("participant_rs_build", 0,
             [ret |-> participant_rs_build(builder),
              builder |-> [builder EXCEPT !.kind = "Participants"]])

\* Leg::new(&ruleset, &participants) over the roster participant.rs built.
BuildLeg ==
    \E rs \in Rulesets :
        /\ bcall.op = "participant_rs_build"
        /\ bret.ok
        /\ Built("Leg::new", 0,
                 [ret |-> Leg_new_over(rs, bret.value), builder |-> builder])

BuildNext ==
    \/ BuildScore
    \/ BuildNumSets
    \/ BuildNumLegs
    \/ BuildWinDistance
    \/ BuildSetOptions
    \/ BuildAdd
    \/ BuildParticipants
    \/ BuildParticipant
    \/ BuildLeg

SpecBuild == BuildInit /\ [][BuildNext]_vars

\* ------------------------------------------- Turn values outside a Leg
\* The number of throws added to one explored Turn of the kind leg.rs uses,
\* which has no cap of its own.
MaxTurnThrows == 3

\* The darts added to the explored Turns: three Triple-20 make 180.
TurnThrows == {Miss, Number("Single", 1), Number("Triple", 20)}

\* No Leg, no Set, no Throw constructor and no builder is involved.
TurnInit == ThrowInit

\* turn.add_throw(throw), then turn.points(), on the Turn leg.rs uses.
TurnAddThrow(throw) ==
    /\ round = TurnRs_new
    /\ Len(turn.throws) < MaxTurnThrows
    /\ LET res == Turn_add_throw(turn, throw)
       IN  /\ turn' = res.turn
           /\ tret' = [ok |-> res.ok,
                       err |-> IF res.ok THEN "None" ELSE "Bust",
                       points |-> Turn_points(res.turn)]
    /\ tcall' = [op |-> "add_throw", throw |-> throw]
    /\ tprev' = [turn |-> turn, round |-> round]
    /\ UNCHANGED <<round, legvars, setvars, throwvars, buildvars>>

\* turn.bust(), then turn.points(), on the Turn leg.rs uses.
TurnBust ==
    /\ round = TurnRs_new
    /\ turn' = Turn_bust(turn)
    /\ tret' = [ok |-> TRUE, err |-> "None", points |-> Turn_points(Turn_bust(turn))]
    /\ tcall' = [op |-> "bust", throw |-> Miss]
    /\ tprev' = [turn |-> turn, round |-> round]
    /\ UNCHANGED <<round, legvars, setvars, throwvars, buildvars>>

\* round.add_throw(throw), then round.score(), on the Turn of turn.rs.
RoundAddThrow(throw) ==
    /\ turn = Turn_new
    /\ LET res == TurnRs_add_throw(round, throw)
       IN  /\ round' = res.turn
           /\ tret' = [ok |-> res.ok, err |-> res.err,
                       points |-> TurnRs_score(res.turn)]
    /\ tcall' = [op |-> "TurnRs::add_throw", throw |-> throw]
    /\ tprev' = [turn |-> turn, round |-> round]
    /\ UNCHANGED <<turn, legvars, setvars, throwvars, buildvars>>

TurnNext ==
    \/ \E throw \in TurnThrows : TurnAddThrow(throw)
    \/ TurnBust
    \/ \E throw \in TurnThrows : RoundAddThrow(throw)

SpecTurn == TurnInit /\ [][TurnNext]_vars

\* ------------------------------------------------- vocabulary of the claims
\* The sum of the points of a sequence of throws, as an integer.
RECURSIVE RawSum(_)
RawSum(throws) ==
    IF throws = <<>> THEN 0 ELSE points(Head(throws)) + RawSum(Tail(throws))

\* The points of the turns of a history that were not voided by a bust.
RECURSIVE KeptPoints(_)
KeptPoints(turns) ==
    IF turns = <<>> THEN 0
    ELSE (IF Head(turns).bust THEN 0 ELSE RawSum(Head(turns).throws))
         + KeptPoints(Tail(turns))

\* Some add_throw has been called; prev and throw_in describe the last call.
Acted == nthrows > 0

\* The participant who made the last throw.
Thrower == prev.current.index

\* The thrower's points when the turn of the last throw started, the turn's
\* total including the last throw, and what the throw leaves.
StartPoints == prev.current.points
RunningTotal == RawSum(prev.current.turn.throws) + points(throw_in)
Remainder == StartPoints - RunningTotal

\* The last throw was the n-th of its turn.
ThrowOfTurn == Len(prev.current.turn.throws) + 1

\* The last throw ended the thrower's turn: it was moved to the history.
TurnEnded == Len(data[Thrower].turns) = Len(prev.data[Thrower].turns) + 1
EndedTurn == data[Thrower].turns[Len(data[Thrower].turns)]
NextParticipant == (Thrower + 1) % participants

\* The last throw satisfies the rule (Any, or its multiplier is the rule's).
MeetsRule(rule, throw) == rule = "Any" \/ throw.mult = rule

\* The smallest remainder from which the out-rule can still check out.
Floor(rule) == CASE rule = "Any" -> 1 [] rule = "Double" -> 2 [] rule = "Triple" -> 3

\* The last throw was a first throw: no completed turn, empty turn in progress.
WasFirstThrow ==
    prev.data[Thrower].turns = <<>> /\ prev.current.turn.throws = <<>>

\* The outcome of a bust: Unfinished, the whole turn (the busting throw
\* included) in the thrower's history with its bust flag set, a fresh turn
\* for the next participant.
BustOutcome ==
    /\ state = "Unfinished"
    /\ TurnEnded
    /\ EndedTurn = [throws |-> Append(prev.current.turn.throws, throw_in),
                    bust |-> TRUE]
    /\ current.index = NextParticipant
    /\ current.turn = [throws |-> <<>>, bust |-> FALSE]

\* The points participant i has left in a Leg: the starting score less the
\* kept turns of the history and less the turn in progress.
RemainingOf(leg, i) ==
    leg.ruleset.score - KeptPoints(leg.data[i].turns)
      - (IF i = leg.current.index /\ ~leg.current.turn.bust
         THEN RawSum(leg.current.turn.throws) ELSE 0)

\* ------------------------------------------------------------------ claims
\* C1: add_throw on an Unfinished Leg returns Finished if and only if the
\* throw brings the thrower's remaining points (points at turn start minus
\* the running turn total) to exactly 0 and the throw is a valid finisher
\* of the out-rule; current_points() of the returned Leg is then 0.
C1_FinishedIffExactValidCheckout ==
    Acted =>
        /\ (state = "Finished") <=>
              (Remainder = 0 /\ MeetsRule(ruleset.out_rule, throw_in))
        /\ state = "Finished" => current_points(TheLeg) = 0

C1_Witness ==
    /\ Acted
    /\ state = "Finished"
    /\ ruleset.out_rule = "Double"
    /\ ThrowOfTurn = 3

\* C2: a throw that makes the running turn total exceed the thrower's points
\* at turn start is a bust: Unfinished, the turn ends at once (also with
\* fewer than 3 throws) and the next participant becomes current.
C2_OvershootBusts ==
    (Acted /\ RunningTotal > StartPoints) => BustOutcome

C2_Witness ==
    /\ Acted
    /\ RunningTotal > StartPoints
    /\ ThrowOfTurn = 2
    /\ participants = 2
    /\ current.index = NextParticipant

\* C3: after a bust the busting player starts the next turn with the points
\* they had at the start of the busted turn: the whole busted turn, the
\* throws before the busting one included, is discarded.
C3_BustKeepsTurnStartPoints ==
    \A i \in 0..(participants - 1) :
        ( /\ current.index = i
          /\ data[i].turns # <<>>
          /\ LET last == data[i].turns[Len(data[i].turns)]
             IN  last.bust \/ Len(last.throws) < 3 )
        => current.points = turn_start[i]

C3_Witness ==
    /\ data[current.index].turns # <<>>
    /\ LET last == data[current.index].turns[Len(data[current.index].turns)]
       IN  /\ last.bust
           /\ Len(last.throws) >= 2
           /\ RawSum(last.throws) > 0
    /\ current.points = turn_start[current.index]
    /\ current.points < ruleset.score

\* C4: a throw that brings the remaining points to exactly 0 without being a
\* valid finisher of the out-rule is a bust, never a win.
C4_WrongFinisherBusts ==
    (Acted /\ Remainder = 0 /\ ~MeetsRule(ruleset.out_rule, throw_in))
        => BustOutcome

C4_Witness ==
    /\ Acted
    /\ Remainder = 0
    /\ ruleset.out_rule = "Double"
    /\ throw_in.mult # "Double"
    /\ state = "Unfinished"

\* The last throw ended the turn in a bust.
Busted == TurnEnded /\ EndedTurn.bust

\* The last throw was a first throw that the in-rule rejects.
InRuleRejected == WasFirstThrow /\ ~MeetsRule(ruleset.in_rule, throw_in)

\* C5 (as stated): a non-finishing throw that leaves a positive remainder
\* below the floor of the out-rule (1 under Double-out, 1 or 2 under
\* Triple-out) is a bust, also with fewer than 3 throws and nothing overshot;
\* under Any-out no positive remainder ever busts.
C5_Original ==
    Acted =>
        /\ (Remainder > 0 /\ Remainder < Floor(ruleset.out_rule)) => BustOutcome
        /\ (ruleset.out_rule = "Any" /\ Remainder > 0) => ~Busted

\* C5 (amended): as above, but under Any-out a positive remainder busts only
\* when the throw is a first throw that the in-rule rejects.
C5_BelowFloorBusts ==
    Acted =>
        /\ (Remainder > 0 /\ Remainder < Floor(ruleset.out_rule)) => BustOutcome
        /\ (ruleset.out_rule = "Any" /\ Remainder > 0 /\ ~InRuleRejected)
              => ~Busted

C5_Witness ==
    /\ Acted
    /\ ruleset.out_rule = "Triple"
    /\ Remainder = 2
    /\ ThrowOfTurn = 2
    /\ ~InRuleRejected
    /\ Busted

\* C6: whenever a turn ends (by a bust or by a third throw that neither busts
\* nor finishes) the current player index becomes (index + 1) mod N, and it
\* changes at no other time; a third throw that does not finish the leg
\* always ends the turn.
C6_RotationOnTurnEnd ==
    [][ LET i == current.index
            ended == Len(data'[i].turns) > Len(data[i].turns)
        IN  /\ ended => current'.index = (i + 1) % participants
            /\ ~ended => current'.index = i
            /\ (Len(current.turn.throws) = 2 /\ state' # "Finished") => ended
      ]_vars

C6_Witness ==
    /\ Acted
    /\ participants = 2
    /\ Thrower = 1
    /\ TurnEnded
    /\ ~EndedTurn.bust
    /\ current.index = 0

\* C7: in every state the current player's points at turn start are the
\* Ruleset score minus the points of that player's own completed non-bust
\* turns; other players' turns and the player's bust turns count for nothing.
C7_PointsFromOwnKeptTurns ==
    current.points = ruleset.score - KeptPoints(data[current.index].turns)

C7_Witness ==
    /\ participants = 2
    /\ current.points < ruleset.score
    /\ \E k \in 1..Len(data[current.index].turns) :
          LET t == data[current.index].turns[k]
          IN  ~t.bust /\ RawSum(t.throws) > 0
    /\ \E j \in 0..(participants - 1) :
          /\ j # current.index
          /\ \E k \in 1..Len(data[j].turns) :
                LET t == data[j].turns[k]
                IN  t.bust /\ RawSum(t.throws) > 0

\* C8 (as stated): with two or more participants the in-rule check is made
\* for the opening throw of the leg and for no later throw, the first throw
\* of the second and later players included.
C8_Original ==
    (Acted /\ participants >= 2) => (first_throw(prev) <=> nthrows = 1)

\* C8 (amended): the in-rule check is made for the first throw each
\* participant makes in the leg (the first throw of the second and later
\* players included) and for no other throw.
C8_GateIsPerParticipant ==
    Acted => (first_throw(prev) <=> thrown[Thrower] = 1)

C8_Witness ==
    /\ Acted
    /\ participants = 2
    /\ Thrower = 1
    /\ nthrows > 1
    /\ first_throw(prev)
    /\ ruleset.in_rule = "Double"
    /\ throw_in = Number("Single", 1)
    /\ Busted

\* C9: a first throw (no completed turn, empty turn in progress) that fails
\* in_rule.valid_throw busts the turn: the turn is marked bust and moved to
\* the history, play passes to the next player, the state is Unfinished and
\* the thrower's remaining points stay at the starting score.
C9_InRuleViolationBusts ==
    (Acted /\ InRuleRejected) =>
        /\ BustOutcome
        /\ RemainingOf(TheLeg, Thrower) = ruleset.score

C9_Witness ==
    /\ Acted
    /\ WasFirstThrow
    /\ ruleset.in_rule = "Triple"
    /\ throw_in.mult = "Double"
    /\ Busted
    /\ current.index = NextParticipant

\* C10: under a Double (resp. Triple) in-rule the first throw of the leg that
\* reduces any player's remaining points below the starting score has
\* multiplier Double (resp. Triple).
C10_FirstScoringThrowMeetsInRule ==
    ( /\ Acted
      /\ ruleset.in_rule # "Any"
      /\ \A i \in 0..(participants - 1) : RemainingOf(prev, i) = ruleset.score
      /\ \E i \in 0..(participants - 1) : RemainingOf(TheLeg, i) < ruleset.score )
    => throw_in.mult = ruleset.in_rule

\* C11: once add_throw has returned Finished the Leg is terminal and
\* immutable: no later add_throw changes its current player, remaining
\* points, in-progress turn or histories, and the result is never
\* Unfinished again.
C11_FinishedIsTerminal ==
    [][ state = "Finished" =>
          /\ state' = "Finished"
          /\ current' = current
          /\ data' = data ]_vars

\* The throw left the turn in progress: no in-rule rejection, and a remainder
\* from which the out-rule can still check out, before the third throw.
TurnGoesOn ==
    /\ Acted
    /\ ~InRuleRejected
    /\ Remainder >= Floor(ruleset.out_rule)
    /\ ThrowOfTurn < 3

\* C12: a throw that neither busts, finishes nor is the third of its turn
\* leaves the Leg Unfinished with the same current player; current_points()
\* drops by exactly the points of the throw, the turn in progress grows by
\* exactly that throw, and the points at turn start and every history are
\* unchanged.
C12_ContinuingThrowFrame ==
    TurnGoesOn =>
        /\ state = "Unfinished"
        /\ current.index = Thrower
        /\ current_points(TheLeg) = current_points(prev) - points(throw_in)
        /\ current.turn = [throws |-> Append(prev.current.turn.throws, throw_in),
                           bust |-> FALSE]
        /\ current.points = prev.current.points
        /\ data = prev.data

C12_Witness ==
    /\ TurnGoesOn
    /\ ThrowOfTurn = 2
    /\ points(throw_in) > 0
    /\ participants = 2
    /\ Thrower = 1
    /\ current_points(TheLeg) < current_points(prev)

\* The throw is a bust by the rules: rejected by the in-rule, overshot, an
\* exact checkout on a throw the out-rule does not allow, or a positive
\* remainder below the floor of the out-rule.
BustByRules ==
    /\ Acted
    /\ \/ InRuleRejected
       \/ Remainder < 0
       \/ Remainder = 0 /\ ~MeetsRule(ruleset.out_rule, throw_in)
       \/ Remainder > 0 /\ Remainder < Floor(ruleset.out_rule)

\* C14: a bust appends exactly one turn to the history of the busting
\* player (and none to any other); that turn has its bust flag set and holds
\* every throw of the turn, the busting throw included.
C14_BustAppendsOneFlaggedTurn ==
    BustByRules =>
        /\ data[Thrower].turns =
              Append(prev.data[Thrower].turns,
                     [throws |-> Append(prev.current.turn.throws, throw_in),
                      bust |-> TRUE])
        /\ \A j \in 0..(participants - 1) :
              j # Thrower => data[j] = prev.data[j]

C14_Witness ==
    /\ BustByRules
    /\ ThrowOfTurn = 3
    /\ participants = 2
    /\ prev.data[Thrower].turns # <<>>
    /\ Len(EndedTurn.throws) = 3
    /\ EndedTurn.bust

\* A Leg as Leg::new leaves it when its first turn is that of player first.
FreshLeg(first) ==
    /\ current = [index |-> first, points |-> ruleset.score,
                  turn |-> [throws |-> <<>>, bust |-> FALSE]]
    /\ \A i \in 0..(participants - 1) : data[i].turns = <<>>

\* C15: Set.add_throw hands the throw to the current Leg; when that Leg
\* reports Finished the finished Leg is appended to the Set's legs, the
\* starting player becomes (first_player + 1) mod participant count and the
\* current Leg is a fresh one whose current player is that new starting
\* player, with the full score and empty histories; otherwise the current
\* Leg is the Leg the throw returned.
C15_FinishedLegStartsNextLeg ==
    [][ LET res == add_throw(TheLeg, throw_in')
        IN  IF res.state = "Finished"
            THEN /\ legs' = Append(legs, res.game)
                 /\ first_player' = (first_player + 1) % participants
                 /\ current'.index = first_player'
                 /\ current'.points = ruleset.score
                 /\ current'.turn = [throws |-> <<>>, bust |-> FALSE]
                 /\ \A i \in 0..(participants - 1) : data'[i].turns = <<>>
            ELSE /\ TheLeg' = res.game
      ]_vars

C15_Witness ==
    /\ created.kind = "Ok"
    /\ state = "Finished"
    /\ participants = 2
    /\ asked_first = 1
    /\ Len(legs) = 2
    /\ first_player = 1
    /\ FreshLeg(1)

\* C16: set completion is not enforced: for every SetOptions and after any
\* number of finished legs (more than num_legs included) the current Leg of
\* the Set is an Unfinished one with points left, fresh right after a leg
\* was finished, and Set.add_throw plays every throw in it.
C16_SetNeverEnds ==
    created.kind = "Ok" =>
        /\ current_points(TheLeg) >= 1
        /\ state = "Finished" => FreshLeg(first_player)
        /\ \A throw \in SetThrows :
              LET res == Set_add_throw(TheSet, throw)
              IN  /\ res.state \in {"Finished", "Unfinished"}
                  /\ current_points(res.set.current_leg) >= 1

C16_Witness ==
    /\ created.kind = "Ok"
    /\ Len(legs) > ruleset.sets.num_legs
    /\ Len(legs) >= ruleset.sets.win_distance
    /\ state = "Unfinished"
    /\ current.turn.throws # <<>>

\* C17: Set::new fails with InvalidFirstPlayer(first_player) if and only if
\* first_player >= participants.count(); otherwise it returns a Set with no
\* completed legs whose current Leg starts with player first_player.
C17_SetNewChecksFirstPlayer ==
    created.kind # "NoSet" =>
        /\ created.kind = "InvalidFirstPlayer" <=> asked_first >= participants
        /\ created.kind = "InvalidFirstPlayer" => created.value = asked_first
        /\ (created.kind = "Ok" /\ nthrows = 0) =>
              /\ legs = <<>>
              /\ first_player = asked_first
              /\ FreshLeg(asked_first)

C17_Witness ==
    /\ created.kind = "InvalidFirstPlayer"
    /\ created.value = participants
    /\ participants = 2

\* C18: Throw::number(multiplier, n) succeeds, with Number(multiplier, n),
\* if and only if 1 <= n <= 20; for every other n of 0..=255 and every
\* multiplier it fails with InvalidNumber(n).
C18_NumberRange ==
    call.op = "number" =>
        /\ ret.ok <=> (1 <= call.number /\ call.number <= 20)
        /\ ret.ok =>
              ret.throw = [kind |-> "Number", mult |-> call.mult,
                           number |-> call.number]
        /\ ~ret.ok => (ret.err = "InvalidNumber" /\ ret.value = call.number)

C18_Witness ==
    /\ call.op = "number"
    /\ call.mult = "Triple"
    /\ call.number = 21
    /\ ~ret.ok
    /\ ret.err = "InvalidNumber"
    /\ ret.value = 21

\* C19: Throw::bullseye(multiplier) fails with BullseyeTriple for Triple and
\* succeeds for Single and Double, and no Throw that bullseye, number,
\* single, double, triple, miss or from_str returns is Bullseye(Triple).
C19_NoTripleBullseye ==
    /\ call.op = "bullseye" =>
          /\ ret.ok <=> call.mult \in {"Single", "Double"}
          /\ ret.ok =>
                ret.throw = [kind |-> "Bullseye", mult |-> call.mult, number |-> 0]
          /\ ~ret.ok => ret.err = "BullseyeTriple"
    /\ ret.ok => ~(ret.throw.kind = "Bullseye" /\ ret.throw.mult = "Triple")

C19_Witness ==
    /\ call.op = "from_str"
    /\ call.text = <<"t", "2", "5">>
    /\ ~ret.ok
    /\ ret.err = "BullseyeTriple"

\* C20: for every validly constructed Throw, points() is 0 for Miss,
\* value x factor for Number and 25 x factor for Bullseye, with factor 1 for
\* Single, 2 for Double and 3 for Triple.
C20_PointsTable ==
    (ret.ok /\ pts # None) =>
        LET f == IF ret.throw.mult = "Single" THEN 1
                 ELSE IF ret.throw.mult = "Double" THEN 2 ELSE 3
        IN  pts = IF ret.throw.kind = "Miss" THEN 0
                  ELSE IF ret.throw.kind = "Number" THEN ret.throw.number * f
                  ELSE 25 * f

C20_Witness ==
    /\ ret.ok
    /\ call.op = "from_str"
    /\ ret.throw.kind = "Bullseye"
    /\ ret.throw.mult = "Double"
    /\ pts = 50

\* C21: Ruleset::new().score(score) succeeds if and only if score is one of
\* 101, 201, 301, ...; every other score is rejected, 0, 1 and 100 among
\* them, and the subtraction score - 1 never underflows, not on 0 either.
C21_ScoreAccepted ==
    bcall.op = "score" =>
        /\ bret.ok <=>
              bcall.value \in {100 * k + 1 : k \in 1..(MaxAskedScore \div 100 + 1)}
        /\ bcall.value \in {0, 1, 100} => ~bret.ok
        /\ bret.ok => builder.score = bcall.value
        /\ ~bret.overflow

C21_Witness ==
    /\ bcall.op = "score"
    /\ bcall.value = 0
    /\ ~bret.ok
    /\ ~bret.overflow

\* C22: each setter of the SetOptions builder (num_sets, num_legs,
\* win_distance) fails on 0 and succeeds, storing the value, on every value
\* greater than 0; build() succeeds on every combination of stored values,
\* whatever their relation.
C22_SetOptionsPositive ==
    /\ bcall.op \in {"num_sets", "num_legs", "win_distance"} =>
          /\ bret.ok <=> bcall.value \in 1..U8Max
          /\ bret.ok => builder[bcall.op] = bcall.value
    /\ bcall.op = "build" =>
          /\ bret.ok
          /\ bret.kind = "SetOptions"
          /\ SetOptions_build(builder) \in
                [num_sets : 1..U8Max, num_legs : 1..U8Max, win_distance : 1..U8Max]

C22_Witness ==
    /\ bcall.op = "build"
    /\ bret.ok
    /\ builder.filled = {"num_sets", "num_legs", "win_distance"}
    /\ builder.win_distance > builder.num_legs
    /\ builder.num_legs = 1

\* C23: building a roster to which no player was added fails, every
\* Participants value a build returns holds at least one participant, and
\* every Leg::new is made over at least one participant.
C23_RosterNeverEmpty ==
    /\ (bcall.op \in {"participants_rs_build", "participant_rs_build"}
           /\ builder.roster = 0) => ~bret.ok
    /\ (bret.kind = "Participants" /\ bret.ok) => bret.value >= 1
    /\ bcall.op = "Leg::new" => (bret.kind = "Leg" /\ bret.value >= 1)

\* C24: add_throw on a Turn that is already bust fails, with Bust, and
\* leaves its throws and its bust flag as they were; bust() sets the flag,
\* keeps the throws, and changes nothing on a Turn that is already bust.
C24_BustTurnRejectsThrows ==
    /\ (tcall.op = "add_throw" /\ tprev.turn.bust) =>
          /\ ~tret.ok
          /\ tret.err = "Bust"
          /\ turn = tprev.turn
    /\ tcall.op = "bust" =>
          /\ turn.bust
          /\ turn.throws = tprev.turn.throws
          /\ tprev.turn.bust => turn = tprev.turn
          /\ Turn_bust(turn) = turn

C24_Witness ==
    /\ tcall.op = "add_throw"
    /\ tcall.throw = Number("Triple", 20)
    /\ tprev.turn.bust
    /\ Len(tprev.turn.throws) = 2
    /\ ~tret.ok

\* C25: add_throw on a Turn of turn.rs that holds 3 throws fails with
\* MaximumThrowsReached and leaves the Turn as it was; on a Turn with fewer
\* than 3 throws it succeeds and appends the throw.
C25_FourthThrowRejected ==
    tcall.op = "TurnRs::add_throw" =>
        IF Len(tprev.round.throws) < 3
        THEN /\ tret.ok
             /\ round.throws = Append(tprev.round.throws, tcall.throw)
        ELSE /\ ~tret.ok
             /\ tret.err = "MaximumThrowsReached"
             /\ round = tprev.round

C25_Witness ==
    /\ tcall.op = "TurnRs::add_throw"
    /\ Len(tprev.round.throws) = 3
    /\ ~tret.ok
    /\ tret.err = "MaximumThrowsReached"
    /\ Len(round.throws) = 3

\* C26: add_throw on a Turn that is not bust always succeeds and appends the
\* throw, also on a Turn that holds 3 or more throws: Turn has no cap.
C26_TurnHasNoCap ==
    /\ (tcall.op = "add_throw" /\ ~tprev.turn.bust) =>
          /\ tret.ok
          /\ turn.throws = Append(tprev.turn.throws, tcall.throw)
    /\ tcall.op = "TurnRs::add_throw" =>
          /\ tret.ok
          /\ round.throws = Append(tprev.round.throws, tcall.throw)

\* C27: the points of a Turn are the sum of the points of its throws when it
\* is not bust, 180 for three Triple-20, and 0 when it is bust.
C27_TurnPoints ==
    /\ tcall.op = "TurnRs::add_throw" => tret.points = RawSum(round.throws)
    /\ tcall.op \in {"add_throw", "bust"} =>
          tret.points = IF turn.bust THEN 0 ELSE RawSum(turn.throws)

C27_Witness ==
    /\ tcall.op = "TurnRs::add_throw"
    /\ round.throws = <<Number("Triple", 20), Number("Triple", 20),
                        Number("Triple", 20)>>
    /\ tret.points = 180

\* C28: add_throw never aborts on a reachable Unfinished Leg: begin_turn
\* never finds an underflow of the recomputed score, the turn that a throw
\* is appended to is not bust and holds fewer than 3 throws, so that the
\* append succeeds, and current_points() never underflows.
C28_AddThrowNeverAborts ==
    /\ state # "Panic"
    /\ current.points # None
    /\ current.points = ruleset.score - KeptPoints(data[current.index].turns)
    /\ current.points >= 0
    /\ current_points(TheLeg) # None
    /\ Acted =>
          /\ ~prev.current.turn.bust
          /\ Len(prev.current.turn.throws) < 3

C28_Witness ==
    /\ Acted
    /\ state = "Unfinished"
    /\ participants = 1
    /\ TurnEnded
    /\ EndedTurn.bust
    /\ RawSum(EndedTurn.throws) > StartPoints
    /\ KeptPoints(data[0].turns) > 0
    /\ current.points = StartPoints

\* C29: in every reachable Unfinished Leg the turn in progress is not bust
\* and holds at most 2 throws; every turn in a history holds 1, 2 or 3
\* throws; the third throw of a turn ends it, by rotation, bust or finish.
C29_TurnSizes ==
    /\ state = "Unfinished" =>
          /\ ~current.turn.bust
          /\ Len(current.turn.throws) <= 2
    /\ \A i \in 0..(participants - 1) :
          \A k \in 1..Len(data[i].turns) :
              Len(data[i].turns[k].throws) \in 1..3
    /\ (Acted /\ ThrowOfTurn = 3) =>
          \/ state = "Finished"
          \/ /\ TurnEnded
             /\ Len(EndedTurn.throws) = 3
             /\ current.index = NextParticipant
             /\ current.turn.throws = <<>>

C29_Witness ==
    /\ Acted
    /\ ThrowOfTurn = 3
    /\ state = "Unfinished"
    /\ TurnEnded
    /\ ~EndedTurn.bust
    /\ Len(EndedTurn.throws) = 3
    /\ participants = 2

\* C30: in every reachable Unfinished Leg current_points() of the current
\* player is at least 1 under Any-out, 2 under Double-out and 3 under
\* Triple-out; current_points() is 0 only in a Finished result.
C30_RemainingIsValid ==
    /\ state = "Unfinished" => current_points(TheLeg) >= Floor(ruleset.out_rule)
    /\ current_points(TheLeg) = 0 => state = "Finished"

C30_Witness ==
    /\ Acted
    /\ state = "Unfinished"
    /\ ruleset.out_rule = "Double"
    /\ current_points(TheLeg) = 2
    /\ Len(current.turn.throws) = 2

\* The last throw has a reason to bust that lies in the points: it overshoots,
\* it reaches 0 with a dart the out-rule rejects, or it leaves less than the
\* floor of the out-rule.
BustByPoints ==
    \/ Remainder < 0
    \/ Remainder = 0 /\ ~MeetsRule(ruleset.out_rule, throw_in)
    \/ Remainder > 0 /\ Remainder < Floor(ruleset.out_rule)

\* C31: the in-rule is applied to a throw exactly when its thrower has no
\* completed turn and an empty turn in progress: that is the first throw
\* each participant makes, a throw the in-rule rejects busts there, and any
\* other throw (of a participant whose first turn ended by an in-rule bust
\* as well) busts only for its points, whatever its multiplier.
C31_InRuleOnOwnFirstThrow ==
    Acted =>
        /\ WasFirstThrow <=> thrown[Thrower] = 1
        /\ (WasFirstThrow /\ ~MeetsRule(ruleset.in_rule, throw_in)) => Busted
        /\ ~WasFirstThrow => (Busted <=> BustByPoints)
        /\ (WasFirstThrow /\ MeetsRule(ruleset.in_rule, throw_in))
              => (Busted <=> BustByPoints)

C31_Witness ==
    /\ Acted
    /\ ruleset.in_rule = "Double"
    /\ Len(prev.data[Thrower].turns) = 1
    /\ prev.data[Thrower].turns[1].bust
    /\ Len(prev.data[Thrower].turns[1].throws) = 1
    /\ prev.current.turn.throws = <<>>
    /\ throw_in = Number("Single", 1)
    /\ ~Busted
    /\ current_points(TheLeg) = ruleset.score - 1

\* C32: turns are dealt round-robin in a Leg started at player 0: with
\* current player c, every participant of an index below c has exactly one
\* completed turn more than c has, and every participant of an index above
\* c has exactly as many as c has.
C32_RoundRobin ==
    LET c == current.index
        own == Len(data[c].turns)
    IN  \A i \in 0..(participants - 1) :
            /\ i < c => Len(data[i].turns) = own + 1
            /\ i > c => Len(data[i].turns) = own

C32_Witness ==
    /\ participants = 2
    /\ current.index = 1
    /\ Len(data[0].turns) = 2
    /\ Len(data[1].turns) = 1
    /\ state = "Unfinished"

\* C33: the histories of a Leg are append-only: one add_throw leaves every
\* turn that is in a history in place and unaltered, appends at most one
\* turn, appends it to the history of the thrower only, and appends nothing
\* when it returns Finished: the finishing turn stays the turn in progress
\* of the winner.
C33_HistoriesAppendOnly ==
    [][ LET c == current.index
        IN  /\ \A i \in 0..(participants - 1) :
                  /\ Len(data'[i].turns) >= Len(data[i].turns)
                  /\ SubSeq(data'[i].turns, 1, Len(data[i].turns)) = data[i].turns
                  /\ i # c => data'[i] = data[i]
            /\ Len(data'[c].turns) <= Len(data[c].turns) + 1
            /\ Len(data'[c].turns) = Len(data[c].turns) + 1 =>
                  data'[c].turns[Len(data'[c].turns)].throws
                      = Append(current.turn.throws, throw_in')
            /\ state' = "Finished" =>
                  /\ data' = data
                  /\ current'.index = c
                  /\ current'.turn =
                        [throws |-> Append(current.turn.throws, throw_in'),
                         bust |-> FALSE]
      ]_vars

C33_Witness ==
    /\ Acted
    /\ state = "Finished"
    /\ participants = 2
    /\ data = prev.data
    /\ Len(data[0].turns) = 1
    /\ Len(data[1].turns) = 1
    /\ Len(current.turn.throws) = 3

\* C34: a Miss thrown at a reachable Unfinished Leg busts only as a first
\* throw under a Double or Triple in-rule, where it always busts; any other
\* Miss leaves current_points() of its thrower as it was and either
\* continues the turn or, as the third throw, ends it without a bust.
C34_MissNeverBusts ==
    (Acted /\ throw_in = Miss) =>
        IF WasFirstThrow /\ ruleset.in_rule \in {"Double", "Triple"}
        THEN Busted
        ELSE /\ ~Busted
             /\ state = "Unfinished"
             /\ RemainingOf(TheLeg, Thrower) = current_points(prev)
             /\ ThrowOfTurn < 3 =>
                   /\ ~TurnEnded
                   /\ current.index = Thrower
                   /\ current_points(TheLeg) = current_points(prev)
                   /\ current.turn.throws = Append(prev.current.turn.throws, Miss)
             /\ ThrowOfTurn = 3 =>
                   /\ TurnEnded
                   /\ ~EndedTurn.bust
                   /\ current.index = NextParticipant

C34_Witness ==
    /\ Acted
    /\ throw_in = Miss
    /\ ThrowOfTurn = 3
    /\ TurnEnded
    /\ ~EndedTurn.bust
    /\ RawSum(EndedTurn.throws) > 0
    /\ ruleset.out_rule = "Triple"
    /\ ruleset.in_rule = "Triple"

\* C35: a Set.add_throw whose throw leaves the current Leg Unfinished changes
\* the current Leg only: the completed legs and the starting-player index
\* stay; current_leg_number() is always the number of completed legs plus 1,
\* and it grows by exactly 1 with each throw that finishes a leg.
C35_SetFrame ==
    [][ /\ state' = "Unfinished" =>
              /\ legs' = legs
              /\ first_player' = first_player
              /\ current_leg_number(TheSet)' = current_leg_number(TheSet)
              /\ TheLeg' = add_throw(TheLeg, throw_in').game
        /\ state' = "Finished" =>
              /\ Len(legs') = Len(legs) + 1
              /\ current_leg_number(TheSet)' = current_leg_number(TheSet) + 1
        /\ current_leg_number(TheSet)' = Len(legs') + 1
      ]_vars

C35_Witness ==
    /\ created.kind = "Ok"
    /\ participants = 2
    /\ Len(legs) = 1
    /\ state = "Unfinished"
    /\ first_player = (asked_first + 1) % participants
    /\ Len(current.turn.throws) = 1
    /\ current.turn.throws[1] = throw_in
    /\ current_leg_number(TheSet) = 2

\* The points of a throw and of a sequence of throws as integers of no width.
WidePoints(throw) ==
    CASE throw.kind = "Miss" -> 0
      [] throw.kind = "Bullseye" ->
            25 * (IF throw.mult = "Single" THEN 1
                  ELSE IF throw.mult = "Double" THEN 2 ELSE 3)
      [] throw.kind = "Number" ->
            throw.number * (IF throw.mult = "Single" THEN 1
                            ELSE IF throw.mult = "Double" THEN 2 ELSE 3)

RECURSIVE WideSum(_)
WideSum(throws) ==
    IF throws = <<>> THEN 0 ELSE WidePoints(Head(throws)) + WideSum(Tail(throws))

\* Every Throw that a constructor returns.
ValidThrows ==
    {res.throw : res \in
        {r \in {Throw_number(m, n) : m \in Multipliers, n \in U8}
                 \cup {Throw_bullseye(m) : m \in Multipliers}
                 \cup {Throw_miss} : r.ok}}

\* The turns of the Leg: the turn in progress and the turns of the history.
TurnsOfLeg ==
    {current.turn} \cup
    UNION {{data[i].turns[k] : k \in 1..Len(data[i].turns)} :
              i \in 0..(participants - 1)}

\* C36: the points stay within 8 bits: points() of every valid Throw is at
\* most 60 and is the product that was meant, and every turn that the Leg
\* state machine produces holds at most 3 throws whose points sum to at most
\* 180, so that the u8 sum of the turn is the sum that was meant.
C36_PointsFitU8 ==
    /\ \A throw \in ValidThrows :
          /\ WidePoints(throw) <= 60
          /\ points(throw) = WidePoints(throw)
    /\ \A t \in TurnsOfLeg :
          /\ Len(t.throws) <= 3
          /\ \A k \in 1..Len(t.throws) : t.throws[k] \in ValidThrows
          /\ WideSum(t.throws) <= 180
          /\ SumThrows(t.throws) = WideSum(t.throws)

C36_Witness ==
    /\ Acted
    /\ TurnEnded
    /\ ~EndedTurn.bust
    /\ EndedTurn.throws = <<Number("Triple", 20), Number("Triple", 20),
                            Number("Triple", 20)>>
    /\ Turn_points(EndedTurn) = 180
    /\ current.points = ruleset.score - 180

====
